---- MODULE Spec2Model ----
(***************************************************************************)
(* TON news bot (src/bot.py): duplicate detection, seen-link tracking,     *)
(* feed polling, notification dispatch, the monitor loop and the price     *)
(* cache, as one state machine.                                            *)
(*                                                                         *)
(* Text is modelled as a sequence of one-character strings, so that the    *)
(* string algorithms of the source (lower, replace, split, join, regex     *)
(* tag stripping) are computed rather than assumed.                        *)
(***************************************************************************)
EXTENDS Integers, Sequences, FiniteSets, TLC

(***************************************************************************)
(* String primitives (Python str semantics on character sequences)         *)
(***************************************************************************)
UpperAZ ==
    <<"A","B","C","D","E","F","G","H","I","J","K","L","M",
      "N","O","P","Q","R","S","T","U","V","W","X","Y","Z">>

LowerAZ ==
    <<"a","b","c","d","e","f","g","h","i","j","k","l","m",
      "n","o","p","q","r","s","t","u","v","w","x","y","z">>

\* str.lower() on one character
LowerChar(c) ==
    IF \E i \in 1..26 : UpperAZ[i] = c
    THEN LowerAZ[CHOOSE i \in 1..26 : UpperAZ[i] = c]
    ELSE c

\* str.lower()
Lower(s) == [i \in 1..Len(s) |-> LowerChar(s[i])]

\* s[n:] and s[:n]
Drop(s, n) == IF n >= Len(s) THEN <<>> ELSE SubSeq(s, n + 1, Len(s))

Take(s, n) == IF n >= Len(s) THEN s ELSE SubSeq(s, 1, n)

\* s.startswith(w)
StartsWith(s, w) == Len(w) <= Len(s) /\ SubSeq(s, 1, Len(w)) = w

\* w in s
Contains(s, w) ==
    \E i \in 0..(Len(s) - Len(w)) : SubSeq(s, i + 1, i + Len(w)) = w

\* s.replace(w, r): non-overlapping occurrences, left to right, one pass
RECURSIVE Replace(_, _, _)
Replace(s, w, r) ==
    IF Len(s) = 0 THEN <<>>
    ELSE IF Len(w) > 0 /\ StartsWith(s, w) THEN r \o Replace(Drop(s, Len(w)), w, r)
    ELSE <<s[1]>> \o Replace(Tail(s), w, r)

IsSpace(c) == c = " "

\* s.split(): split on runs of whitespace, no empty tokens
RECURSIVE SplitFrom(_, _)
SplitFrom(s, tok) ==
    IF Len(s) = 0 THEN (IF Len(tok) = 0 THEN <<>> ELSE <<tok>>)
    ELSE IF IsSpace(s[1])
         THEN (IF Len(tok) = 0 THEN <<>> ELSE <<tok>>) \o SplitFrom(Tail(s), <<>>)
         ELSE SplitFrom(Tail(s), Append(tok, s[1]))

Split(s) == SplitFrom(s, <<>>)

\* sep.join(words)
RECURSIVE Join(_, _)
Join(words, sep) ==
    IF Len(words) = 0 THEN <<>>
    ELSE IF Len(words) = 1 THEN words[1]
    ELSE words[1] \o sep \o Join(Tail(words), sep)

\* n copies of s
RECURSIVE Rep(_, _)
Rep(s, n) == IF n = 0 THEN <<>> ELSE s \o Rep(s, n - 1)

Range(f) == {f[i] : i \in DOMAIN f}

(***************************************************************************)
(* clean_html                                                              *)
(***************************************************************************)
\* end index of the lazy match of '<[^<]+?>' starting at s[1] = "<", or 0
TagEnd(s) ==
    IF Len(s) >= 3 /\ s[1] = "<"
       /\ \E j \in 3..Len(s) : s[j] = ">" /\ \A k \in 2..(j - 1) : s[k] # "<"
    THEN CHOOSE j \in 3..Len(s) :
            /\ s[j] = ">" /\ \A k \in 2..(j - 1) : s[k] # "<"
            /\ \A j2 \in 3..(j - 1) : s[j2] # ">"
    ELSE 0

\* re.sub('<[^<]+?>', '', text)
RECURSIVE StripTags(_)
StripTags(s) ==
    IF Len(s) = 0 THEN <<>>
    ELSE IF TagEnd(s) > 0 THEN StripTags(Drop(s, TagEnd(s)))
    ELSE <<s[1]>> \o StripTags(Tail(s))

EntQuot == <<"&","q","u","o","t",";">>
EntAmp  == <<"&","a","m","p",";">>
EntLt   == <<"&","l","t",";">>
EntGt   == <<"&","g","t",";">>
EntApos == <<"&","#","3","9",";">>
EntNbsp == <<"&","n","b","s","p",";">>

clean_html_of(text) ==
    IF Len(text) = 0 THEN <<>>
    ELSE LET t1 == StripTags(text)
             t2 == Replace(Replace(Replace(Replace(t1, EntQuot, <<"\"">>),
                                           EntAmp, <<"&">>),
                                   EntLt, <<"<">>),
                           EntGt, <<">">>)
             t3 == Replace(Replace(t2, EntApos, <<"'">>), EntNbsp, <<" ">>)
         IN  Join(Split(t3), <<" ">>)

(***************************************************************************)
(* get_content_hash                                                        *)
(***************************************************************************)
StopWords ==
    << <<"t","o","n">>, <<"n","e","w","s">>, <<"p","r","i","c","e">>,
       <<"b","l","o","c","k","c","h","a","i","n">>, <<"c","r","y","p","t","o">>,
       <<"t","o","k","e","n">>, <<"m","u","s","k">>, <<"e","l","o","n">>,
       <<"t","w","i","t","t","e","r">>, <<"s","p","a","c","e","x">> >>

HashWords == 15

RECURSIVE RemoveWords(_, _)
RemoveWords(s, ws) ==
    IF Len(ws) = 0 THEN s
    ELSE RemoveWords(Replace(s, ws[1], <<>>), Tail(ws))

\* hashlib.md5(text_key).hexdigest()[:12]; the digest is modelled as an
\* injective tag of its input (collisions of the 48-bit digest are not modelled)
Md5Hex12(key) == <<"md5", key>>

text_key(title, content) ==
    LET combined == RemoveWords(Lower(title \o <<"_">> \o content), StopWords)
        words    == Take(Split(combined), HashWords)
    IN  Join(words, <<"_">>)

content_hash_of(title, content) == Md5Hex12(text_key(title, content))

(***************************************************************************)
(* is_ton_related                                                          *)
(***************************************************************************)
TON_KEYWORDS ==
    << <<"T","O","N">>, <<"T","O","N","C","O","I","N">>,
       <<"T","o","n"," ","b","l","o","c","k","c","h","a","i","n">>,
       <<"T","e","l","e","g","r","a","m"," ","T","O","N">>,
       <<"T","O","N"," ","c","o","i","n">>,
       <<"t","o","n"," ","n","e","t","w","o","r","k">>,
       <<"t","o","n"," ","t","o","k","e","n">>,
       <<"t","o","n"," ","e","c","o","s","y","s","t","e","m">>,
       <<"c","r","y","p","t","o"," ","t","o","n">>,
       <<"t","o","n"," ","p","r","i","c","e">>,
       <<"t","o","n"," ","t","r","a","d","i","n","g">>,
       <<"t","o","n"," ","n","e","w","s">> >>

ton_related_text(text) ==
    \E i \in 1..Len(TON_KEYWORDS) : Contains(Lower(text), Lower(TON_KEYWORDS[i]))

(***************************************************************************)
(* Sample feed entries: raw title, link, summary as a feed source gives    *)
(* them.  EntryA and EntryB differ in case, spacing, summary, link and in  *)
(* their 16th token only; EntryC shares EntryA's link; EntryD is off       *)
(* topic; EntryE is on topic through its summary alone.                    *)
(***************************************************************************)
TitleA == <<"T","O","N"," ","u","p">> \o Rep(<<" ","a">>, 14) \o <<" ","x">>

TitleB == <<"T","o","n"," "," ","U","P">> \o Rep(<<" ","a">>, 14) \o <<" ","y">>

TitleC == <<"T","O","N"," ","u","p","s","i","d","e"," ","d","o","w","n">>

TitleD == <<"B","T","C">>

TitleE == <<"D","u","r","o","v">>

SummaryB == <<"<","p",">","z","<","/","p",">">>

SummaryD == <<"x">>

SummaryE == <<"<","b",">","T","O","N","<","/","b",">"," ","&","a","m","p",";"," ","c","o">>

EntryA == [title |-> TitleA, link |-> "a", summary |-> <<>>]

EntryB == [title |-> TitleB, link |-> "b", summary |-> SummaryB]

EntryC == [title |-> TitleC, link |-> "a", summary |-> <<>>]

EntryD == [title |-> TitleD, link |-> "d", summary |-> SummaryD]

EntryE == [title |-> TitleE, link |-> "e", summary |-> SummaryE]

Entries == {EntryA, EntryB, EntryC, EntryD, EntryE}

Links == {e.link : e \in Entries}

\* (title, content) arguments offered to is_duplicate_content when it is
\* exercised on its own: the sample entries' texts plus two pairs that
\* differ only in where the title ends
Pairs ==
    {<<e.title, e.summary>> : e \in Entries}
        \cup {<<<<"q"," ","r">>, <<"s">>>>, <<<<"q">>, <<"r"," ","s">>>>}

\* clean_content[:200] if clean_content else "No description"
ContentMax == 200

NoDescription == <<"N","o"," ","d","e","s","c","r","i","p","t","i","o","n">>

\* the dict fetch_rss_news appends for an accepted entry
news_item_of(entry) ==
    LET clean_content == clean_html_of(entry.summary) IN
    [title   |-> clean_html_of(entry.title),
     link    |-> entry.link,
     content |-> IF Len(clean_content) > 0 THEN Take(clean_content, ContentMax)
                 ELSE NoDescription]

\* the branch analyze_news_with_ai takes without a completion credential
trend_of(news_title) ==
    IF Contains(Lower(news_title), <<"d","o","w","n">>)
       \/ Contains(Lower(news_title), <<"f","a","l","l">>)
    THEN "negative"
    ELSE IF Contains(Lower(news_title), <<"u","p">>)
            \/ Contains(Lower(news_title), <<"r","i","s","e">>)
    THEN "positive"
    ELSE "neutral"

\* the branch analyze_ton_price_impact takes without a completion credential
impact_of(news_title) ==
    IF Contains(Lower(news_title), <<"d","o","w","n">>)
       \/ Contains(Lower(news_title), <<"n","e","g","a","t","i","v","e">>)
    THEN "decline"
    ELSE IF Contains(Lower(news_title), <<"u","p">>)
            \/ Contains(Lower(news_title), <<"p","o","s","i","t","i","v","e">>)
    THEN "growth"
    ELSE "neutral"

\* every text the sample entries can hand to the text functions
Texts == {p[1] : p \in Pairs} \cup {p[2] : p \in Pairs}

\* The text functions are evaluated once per sample input and looked up
\* afterwards; the tables hold exactly the values the operators compute.
ContentHashTable == [p \in Pairs |-> content_hash_of(p[1], p[2])]

CleanHtmlTable == [t \in Texts |-> clean_html_of(t)]

TonRelatedTable == [t \in Texts |-> ton_related_text(t)]

NewsItemTable == [e \in Entries |-> news_item_of(e)]

TrendTable == [t \in {NewsItemTable[e].title : e \in Entries} |-> trend_of(t)]

ImpactTable == [t \in {NewsItemTable[e].title : e \in Entries} |-> impact_of(t)]

get_content_hash(title, content) == ContentHashTable[<<title, content>>]

clean_html(text) == CleanHtmlTable[text]

is_ton_related(text) == TonRelatedTable[text]

(***************************************************************************)
(* State                                                                   *)
(***************************************************************************)
VARIABLES
    sent_news,        \* NewsManager.sent_news: set of links
    content_hashes,   \* NewsManager.content_hashes: set of fingerprints
    last_news,        \* NewsManager.last_news: None or item with message_id
    sent_file,        \* sent_news.json
    hashes_file,      \* content_hashes.json
    last_file,        \* last_news.json
    call,             \* the last NewsManager method call and what it returned
    marked,           \* links mark_sent has been called with
    asked,            \* fingerprints is_duplicate_content has been asked about
    loaded_sent,      \* sent_news as loaded at construction
    loaded_hashes,    \* content_hashes as loaded at construction
    user_languages,   \* user_languages: str(user_id) -> "ru" | "en"
    lang_file,        \* user_languages.json
    api_key,          \* whether OPENAI_API_KEY is set
    feeds,            \* what each feed source currently lists, newest first
    pc,               \* where the monitor_news task is suspended
    news_items,       \* the list the current cycle's fetch_rss_news returned
    idx,              \* position of the for loop in news_items
    cur,              \* locals of the send_news_alert call in progress
    cancel,           \* monitor_task.cancel(): "none", "swallowed", "observed", "escaped"
    feed_errors,      \* feeds whose "Feed error" line the last fetch printed
    alerts,           \* per link, news alerts send_message accepted (capped)
    result,           \* what the send_news_alert call that just ended did
    price_cache,      \* price_cache: {"price": ..., "timestamp": ...}
    now,              \* datetime.now(), in minutes
    price_call,       \* the last get_ton_price call and what it returned
    reply,            \* the last handler invocation and what it sent to the user
    undelivered       \* items a fetch returned whose dispatch returned False or never ran

nmVars == <<sent_news, content_hashes, last_news, sent_file, hashes_file, last_file>>

callVars == <<call, marked, asked>>

loadVars == <<loaded_sent, loaded_hashes>>

langVars == <<user_languages, lang_file>>

monitorVars == <<pc, news_items, idx, cur, cancel>>

obsVars == <<feed_errors, alerts, result>>

botVars == <<langVars, api_key, feeds, monitorVars, obsVars>>

priceVars == <<price_cache, now, price_call>>

vars == <<nmVars, callVars, loadVars, botVars, priceVars, reply, undelivered>>

None == [tag |-> "None"]

NoCall == [op |-> "none"]

NoCur == [lang |-> "none"]

NoResult == [ret |-> "none"]

NoReply == [handler |-> "none"]

\* json.dump(list(set), f) and set(json.load(f)): a JSON array of strings
json_dump_set(S) == [json |-> "array", items |-> S]

json_load_set(doc) == doc.items

(***************************************************************************)
(* NewsManager                                                             *)
(***************************************************************************)
\* is_sent that never finds a link
is_sent_never(sent, link) == FALSE

\* is_sent(link)
is_sent(sent, link) == link \in sent

\* mark_sent that assigns instead of adding
mark_sent_replaces(sent, file, link, save_ok) ==
    [sent   |-> {link},
     file   |-> IF save_ok THEN json_dump_set({link}) ELSE file,
     raised |-> ~save_ok]

\* mark_sent(link): add, then save_sent_news(); save_ok = FALSE is the write
\* raising after the link was added in memory
mark_sent(sent, file, link, save_ok) ==
    [sent   |-> sent \cup {link},
     file   |-> IF save_ok THEN json_dump_set(sent \cup {link}) ELSE file,
     raised |-> ~save_ok]

\* is_duplicate_content that forgets to record a new fingerprint
is_duplicate_content_forgets(hashes, file, title, content, save_ok) ==
    IF get_content_hash(title, content) \in hashes
    THEN [ret |-> "true", hashes |-> hashes, file |-> file]
    ELSE [ret |-> "false", hashes |-> hashes, file |-> file]

\* is_duplicate_content that records but never reports a duplicate
is_duplicate_content_blind(hashes, file, title, content, save_ok) ==
    [ret    |-> IF save_ok THEN "false" ELSE "raised",
     hashes |-> hashes \cup {get_content_hash(title, content)},
     file   |-> IF save_ok
                THEN json_dump_set(hashes \cup {get_content_hash(title, content)})
                ELSE file]

\* is_duplicate_content(title, content): ret is "true", "false" or "raised"
\* (save_content_hashes raising after the fingerprint was added in memory)
is_duplicate_content(hashes, file, title, content, save_ok) ==
    LET content_hash == get_content_hash(title, content) IN
    IF content_hash \in hashes
    THEN [ret |-> "true", hashes |-> hashes, file |-> file]
    ELSE [ret    |-> IF save_ok THEN "false" ELSE "raised",
          hashes |-> hashes \cup {content_hash},
          file   |-> IF save_ok THEN json_dump_set(hashes \cup {content_hash})
                     ELSE file]

Fingerprints == {get_content_hash(p[1], p[2]) : p \in Pairs}

(***************************************************************************)
(* NewsManager driven method by method (storage writes succeed)            *)
(***************************************************************************)
\* NewsManager.__init__ with the given file contents, nothing called yet
InitNewsManager ==
    /\ sent_news = loaded_sent
    /\ content_hashes = loaded_hashes
    /\ last_news = None
    /\ sent_file = json_dump_set(loaded_sent)
    /\ hashes_file = json_dump_set(loaded_hashes)
    /\ last_file = None
    /\ call = NoCall
    /\ marked = {}
    /\ asked = {}

\* module load: no language stored, the task not started, nothing sent
InitBot ==
    /\ user_languages = <<>>
    /\ lang_file = <<>>
    /\ pc = "start"
    /\ news_items = <<>>
    /\ idx = 0
    /\ cur = NoCur
    /\ cancel = "none"
    /\ feed_errors = {}
    /\ alerts = [link \in Links |-> 0]
    /\ result = NoResult
    /\ reply = NoReply
    /\ undelivered = {}

\* price_cache = {"price": None, "timestamp": None}
InitPriceCache ==
    /\ price_cache = [price |-> None, timestamp |-> None]
    /\ now = 0
    /\ price_call = NoCall

InitManager ==
    /\ loaded_sent = {}
    /\ loaded_hashes \in {{}, {get_content_hash(TitleD, SummaryD)}}
    /\ InitNewsManager
    /\ InitBot
    /\ InitPriceCache
    /\ api_key = FALSE
    /\ feeds = <<>>

CallIsSent(link) ==
    /\ call' = [op |-> "is_sent", link |-> link,
                ret |-> IF is_sent(sent_news, link) THEN "true" ELSE "false"]
    /\ UNCHANGED <<nmVars, marked, asked, loadVars, reply, undelivered, botVars, priceVars>>

CallMarkSent(link) ==
    LET r == mark_sent(sent_news, sent_file, link, TRUE) IN
    /\ sent_news' = r.sent
    /\ sent_file' = r.file
    /\ marked' = marked \cup {link}
    /\ call' = [op |-> "mark_sent", link |-> link, ret |-> "none"]
    /\ UNCHANGED <<content_hashes, hashes_file, last_news, last_file, asked, loadVars, reply, undelivered, botVars, priceVars>>

CallIsDuplicate(title, content) ==
    LET r == is_duplicate_content(content_hashes, hashes_file, title, content, TRUE) IN
    /\ content_hashes' = r.hashes
    /\ hashes_file' = r.file
    /\ asked' = asked \cup {get_content_hash(title, content)}
    /\ call' = [op |-> "is_duplicate_content",
                hash |-> get_content_hash(title, content),
                first |-> get_content_hash(title, content) \notin asked \cup loaded_hashes,
                ret |-> r.ret]
    /\ UNCHANGED <<sent_news, sent_file, last_news, last_file, marked, loadVars, reply, undelivered, botVars, priceVars>>

NextManager ==
    \/ \E link \in Links : CallIsSent(link)
    \/ \E link \in Links : CallMarkSent(link)
    \/ \E p \in Pairs : CallIsDuplicate(p[1], p[2])

SpecManager == InitManager /\ [][NextManager]_vars

(***************************************************************************)
(* C1: a fingerprint not yet in the fingerprint set makes                  *)
(* is_duplicate_content return false and is recorded, in memory and in the *)
(* file, when the call returns; every later call whose input has that      *)
(* fingerprint returns true, whatever is_sent, mark_sent and other         *)
(* is_duplicate_content calls came in between.                             *)
(***************************************************************************)
C1_FirstFalseThenTrue ==
    call.op = "is_duplicate_content" =>
        /\ call.first => call.ret = "false"
        /\ ~call.first => call.ret = "true"
        /\ call.hash \in content_hashes
        /\ call.hash \in json_load_set(hashes_file)
        /\ asked \subseteq content_hashes

\* a repeated fingerprint answered after calls of the other methods
C1_Witness ==
    /\ call.op = "is_duplicate_content"
    /\ ~call.first
    /\ call.ret = "true"
    /\ call.hash \notin loaded_hashes
    /\ marked # {}
    /\ Cardinality(asked) >= 2

(***************************************************************************)
(* C2: from an empty seen-link set, is_sent(L) is false until the first    *)
(* mark_sent(L) and true ever after; no operation removes a link.          *)
(***************************************************************************)
C2_SentIffMarked ==
    /\ \A link \in Links : is_sent(sent_news, link) <=> link \in marked
    /\ call.op = "is_sent" => (call.ret = "true" <=> call.link \in marked)

C2_Witness ==
    /\ call.op = "is_sent"
    /\ call.ret = "true"
    /\ \E other \in Links : other \notin marked
    /\ asked # {}

(***************************************************************************)
(* Language preferences                                                    *)
(***************************************************************************)
TELEGRAM_CHAT_ID == 1

Users == {TELEGRAM_CHAT_ID, TELEGRAM_CHAT_ID + 1}

Languages == {"ru", "en"}

\* user_languages.get(str(user_id), "ru")
get_user_language(langs, user_id) ==
    IF ToString(user_id) \in DOMAIN langs THEN langs[ToString(user_id)] ELSE "ru"

\* save_user_language keeping the new preference only
save_user_language_only_last(langs, user_id, lang) ==
    [langs |-> (ToString(user_id) :> lang),
     file  |-> (ToString(user_id) :> lang)]

\* user_languages[str(user_id)] = lang, then json.dump to the file
save_user_language(langs, user_id, lang) ==
    [langs |-> (ToString(user_id) :> lang) @@ langs,
     file  |-> (ToString(user_id) :> lang) @@ langs]

(***************************************************************************)
(* fetch_rss_news                                                          *)
(***************************************************************************)
NumFeeds == 2

FeedIds == 1..NumFeeds

\* feed.entries[:5]
FeedSlice == 5

\* What can go wrong while one feed is processed: nothing, feedparser.parse
\* raising, or the nth save_content_hashes call of that feed raising.
MaxSaveFault == 2

FeedFaults ==
    {[kind |-> "none"], [kind |-> "parse"]}
        \cup {[kind |-> "save", nth |-> n] : n \in 1..MaxSaveFault}

NoFeedFaults == [f \in FeedIds |-> [kind |-> "none"]]

\* The fault combinations of one fetch over the given listings: a save can
\* only fail for a feed that lists enough relevant entries to call it.
FaultChoices(listing) ==
    {faults \in [FeedIds -> FeedFaults] :
        \A f \in FeedIds :
            faults[f].kind = "save" =>
                faults[f].nth <= Cardinality({i \in 1..Len(listing[f]) :
                                        /\ i <= FeedSlice
                                        /\ \/ is_ton_related(listing[f][i].title)
                                           \/ is_ton_related(listing[f][i].summary)})}

\* the body of "for entry in feed.entries[:5]"; st carries news_items and
\* the fingerprint set with its file, saves counts save_content_hashes calls
RECURSIVE process_entries(_, _, _, _, _)
process_entries(entries, sent, fault, saves, st) ==
    IF Len(entries) = 0 THEN [st EXCEPT !.raised = FALSE]
    ELSE
      LET entry == Head(entries) IN
      IF (is_ton_related(entry.title) \/ is_ton_related(entry.summary))
         /\ ~is_sent(sent, entry.link)
      THEN
        LET save_ok == ~(fault.kind = "save" /\ fault.nth = saves + 1)
            d == is_duplicate_content(st.hashes, st.file,
                                      entry.title, entry.summary, save_ok)
        IN  IF d.ret = "raised"
            THEN [items |-> st.items, hashes |-> d.hashes, file |-> d.file,
                  raised |-> TRUE]
            ELSE IF d.ret = "false"
            THEN process_entries(Tail(entries), sent, fault, saves + 1,
                     [items |-> Append(st.items, NewsItemTable[entry]),
                      hashes |-> d.hashes, file |-> d.file, raised |-> FALSE])
            ELSE process_entries(Tail(entries), sent, fault, saves, st)
      ELSE process_entries(Tail(entries), sent, fault, saves, st)

\* the body of "for feed_url in CRYPTO_NEWS_FEEDS", from feed f on
RECURSIVE fetch_from(_, _, _, _, _)
fetch_from(f, listing, sent, faults, st) ==
    IF f > NumFeeds THEN st
    ELSE
      LET r == IF faults[f].kind = "parse"
               THEN [items |-> st.items, hashes |-> st.hashes, file |-> st.file,
                     raised |-> TRUE]
               ELSE process_entries(Take(listing[f], FeedSlice), sent, faults[f], 0,
                        [items |-> st.items, hashes |-> st.hashes,
                         file |-> st.file, raised |-> FALSE])
      IN  fetch_from(f + 1, listing, sent, faults,
              [items  |-> r.items, hashes |-> r.hashes, file |-> r.file,
               errors |-> IF r.raised THEN st.errors \cup {f} ELSE st.errors])

\* fetch_rss_news without the is_sent test
fetch_rss_news_ignores_sent(listing, sent, hashes, file, faults) ==
    fetch_from(1, listing, {}, faults,
               [items |-> <<>>, hashes |-> hashes, file |-> file, errors |-> {}])

\* fetch_rss_news with the try around the whole loop: the feeds after the
\* first one that is given a fault are not read
fetch_rss_news_stops_at_error(listing, sent, hashes, file, faults) ==
    fetch_from(1, [f \in FeedIds |->
                      IF \E g \in FeedIds : g < f /\ faults[g].kind # "none"
                      THEN <<>> ELSE listing[f]],
               sent, faults,
               [items |-> <<>>, hashes |-> hashes, file |-> file, errors |-> {}])

\* fetch_rss_news asking is_duplicate_content about every entry it reads
fetch_rss_news_hashes_all(listing, sent, hashes, file, faults) ==
    LET r == fetch_from(1, listing, sent, faults,
                 [items |-> <<>>, hashes |-> hashes, file |-> file, errors |-> {}])
        read == {get_content_hash(listing[p[1]][p[2]].title, listing[p[1]][p[2]].summary) :
                    p \in {q \in FeedIds \X (1..FeedSlice) : q[2] <= Len(listing[q[1]])}}
    IN  [items |-> r.items, hashes |-> r.hashes \cup read,
         file |-> json_dump_set(r.hashes \cup read), errors |-> r.errors]

\* the loop over CRYPTO_NEWS_FEEDS, started with an empty news_items
fetch_rss_news(listing, sent, hashes, file, faults) ==
    fetch_from(1, listing, sent, faults,
               [items |-> <<>>, hashes |-> hashes, file |-> file, errors |-> {}])

(***************************************************************************)
(* analyze_news_with_ai, translate_text, send_news_alert                   *)
(***************************************************************************)
\* the three rule-based answers and the answer of the except branch; the
\* Russian texts are written in Latin letters
TrendText(trend, lang) ==
    IF trend = "negative"
    THEN (IF lang = "en" THEN "Trend: Negative" ELSE "Trend: Otritsatelnyi")
    ELSE IF trend = "positive"
    THEN (IF lang = "en" THEN "Trend: Positive" ELSE "Trend: Polozhitelnyi")
    ELSE (IF lang = "en" THEN "Trend: Neutral" ELSE "Trend: Neitralnyi")

UnavailableText(lang) ==
    IF lang = "en" THEN "Analysis unavailable" ELSE "Analiz nedostupen"

\* what the completion collaborator can answer
AiTexts == {"AI: demand is growing"}

\* completion is "unused" without a credential, else [kind |-> "text", text |-> t],
\* [kind |-> "raise"] or [kind |-> "cancelled"] (the bare except catches both)
analyze_news_with_ai(key_set, news_title, lang, completion) ==
    IF ~key_set THEN TrendText(TrendTable[news_title], lang)
    ELSE IF completion.kind = "text" THEN completion.text
    ELSE UnavailableText(lang)

\* translate_text(text, target_lang): the translation collaborator's answer,
\* or the text itself for "ru" and on any failure
Translated(text) == <<"[en]">> \o text

translate_text(text, target_lang, ok) ==
    IF target_lang = "ru" THEN text
    ELSE IF target_lang = "en" /\ ok THEN Translated(text)
    ELSE text

\* the message send_news_alert formats
format_alert(news, user_lang, analysis, ok_title, ok_content) ==
    [lang     |-> user_lang,
     title    |-> IF user_lang = "en" THEN translate_text(news.title, "en", ok_title)
                  ELSE news.title,
     content  |-> IF user_lang = "en" THEN translate_text(news.content, "en", ok_content)
                  ELSE news.content,
     analysis |-> analysis,
     link     |-> news.link]

\* classes caught by "except Exception"; CancelledError is a BaseException
ExceptionClasses == {"TelegramError", "OSError"}

\* send_news_alert catching delivery errors only
send_news_alert_return_narrow(exc) ==
    IF exc = "none" THEN "true"
    ELSE IF exc = "TelegramError" THEN "false"
    ELSE exc

\* the try/except of send_news_alert: what the call does for its caller when
\* its body ends normally ("none") or with exception exc
send_news_alert_return(exc) ==
    IF exc = "none" THEN "true"
    ELSE IF exc \in ExceptionClasses THEN "false"
    ELSE exc

\* lines 408-412 writing sent_news.json from a copy of the set that holds
\* the new link only
record_sent_stale_file(sent, sfile, last, lfile, news, message_id, fault) ==
    LET snapshot == [title |-> news.title, link |-> news.link,
                     content |-> news.content, message_id |-> message_id]
    IN  [sent |-> sent \cup {news.link}, sent_file |-> json_dump_set({news.link}),
         last_news |-> snapshot, last_file |-> snapshot, exc |-> "none"]

\* lines 408-412 after send_message returned sent_msg; fault names the file
\* whose write raises ("none", "sent_file" or "last_file")
record_sent(sent, sfile, last, lfile, news, message_id, fault) ==
    LET m == mark_sent(sent, sfile, news.link, fault # "sent_file")
        snapshot == [title |-> news.title, link |-> news.link,
                     content |-> news.content, message_id |-> message_id]
    IN  IF m.raised
        THEN [sent |-> m.sent, sent_file |-> m.file, last_news |-> last,
              last_file |-> lfile, exc |-> "OSError"]
        ELSE IF fault = "last_file"
        THEN [sent |-> m.sent, sent_file |-> m.file, last_news |-> snapshot,
              last_file |-> lfile, exc |-> "OSError"]
        ELSE [sent |-> m.sent, sent_file |-> m.file, last_news |-> snapshot,
              last_file |-> snapshot, exc |-> "none"]

(***************************************************************************)
(* Command handlers and button_callback: what each invocation sends.  A    *)
(* message is a record naming its template, its language and the values    *)
(* formatted into it.                                                       *)
(***************************************************************************)
ImpactText(impact, lang) ==
    IF impact = "decline"
    THEN (IF lang = "ru" THEN "Veroyatnyi spad" ELSE "Likely Decline")
    ELSE IF impact = "growth"
    THEN (IF lang = "ru" THEN "Veroyatnyi rost" ELSE "Likely Growth")
    ELSE (IF lang = "ru" THEN "Neitralnoe vliyanie" ELSE "Neutral Impact")

\* completion as for analyze_news_with_ai
analyze_ton_price_impact(key_set, news_title, lang, completion) ==
    IF ~key_set THEN ImpactText(ImpactTable[news_title], lang)
    ELSE IF completion.kind = "text" THEN completion.text
    ELSE UnavailableText(lang)

\* what the completion collaborator does with a request of a handler
Completions == {[kind |-> "text", text |-> t] : t \in AiTexts} \cup {[kind |-> "raise"]}

\* update.message.reply_text, query.edit_message_text, query.answer
reply_text(message) == [via |-> "reply_text", message |-> message]

edit_message_text(message) == [via |-> "edit_message_text", message |-> message]

answer(text) == [via |-> "answer", message |-> text]

NoText == [template |-> "none"]

\* the news message of the latest-news handlers, in user_lang
news_message(news, user_lang, analysis, ok_title, ok_content) ==
    [template |-> "news",
     lang     |-> user_lang,
     title    |-> IF user_lang = "en" THEN translate_text(news.title, "en", ok_title)
                  ELSE news.title,
     content  |-> IF user_lang = "en" THEN translate_text(news.content, "en", ok_content)
                  ELSE news.content,
     analysis |-> analysis,
     link     |-> news.link]

\* start_command: the bilingual language prompt
start_command == <<reply_text([template |-> "choose_language", lang |-> "both"])>>

lastnews_command(langs, last, key_set, user_id, completion, ok_title, ok_content) ==
    LET user_lang == get_user_language(langs, user_id) IN
    IF last # None
    THEN <<reply_text(news_message(last, user_lang,
                          analyze_news_with_ai(key_set, last.title, user_lang, completion),
                          ok_title, ok_content))>>
    ELSE <<reply_text([template |-> "no_news", lang |-> user_lang])>>

\* price_data is what get_ton_price() returned
price_command(langs, user_id, price_data) ==
    LET user_lang == get_user_language(langs, user_id) IN
    IF price_data # None
    THEN <<reply_text([template |-> "price", lang |-> user_lang, price |-> price_data])>>
    ELSE <<reply_text([template |-> "price_error", lang |-> user_lang])>>

help_command(langs, user_id) ==
    <<reply_text([template |-> "help", lang |-> get_user_language(langs, user_id)])>>

\* callback_data of the buttons the bot's keyboards carry
ButtonData ==
    {"set_lang_ru", "set_lang_en", "price", "price_refresh", "help", "lastnews",
     "lang_en", "lang_ru", "price_impact"}

\* button_callback: save is the language handed to save_user_language
\* ("none": no call), out what the calls on query sent, in order.  price_data
\* is what get_ton_price() returned in the price branch.
button_callback(langs, last, key_set, user_id, data, price_data, completion, ok_title, ok_content) ==
    LET user_lang == get_user_language(langs, user_id)
        ack == answer(NoText)
    IN  IF data = "set_lang_ru"
        THEN [save |-> "ru",
              out |-> <<ack, edit_message_text([template |-> "menu", lang |-> "ru"])>>]
        ELSE IF data = "set_lang_en"
        THEN [save |-> "en",
              out |-> <<ack, edit_message_text([template |-> "menu", lang |-> "en"])>>]
        ELSE IF data \in {"price", "price_refresh"}
        THEN [save |-> "none",
              out |-> IF price_data # None
                      THEN <<ack, edit_message_text([template |-> "price", lang |-> user_lang,
                                                     price |-> price_data])>>
                      ELSE <<ack>>]
        ELSE IF data = "help"
        THEN [save |-> "none",
              out |-> <<ack, edit_message_text([template |-> "help", lang |-> user_lang])>>]
        ELSE IF data = "lastnews"
        THEN [save |-> "none",
              out |-> IF last # None
                      THEN <<ack, edit_message_text(news_message(last, user_lang,
                                      analyze_news_with_ai(key_set, last.title, user_lang,
                                                           completion),
                                      ok_title, ok_content))>>
                      ELSE <<ack>>]
        ELSE IF data \in {"lang_en", "lang_ru"}
        THEN LET lang == IF data = "lang_en" THEN "en" ELSE "ru"
                 changed == answer([template |-> "language_changed", lang |-> lang])
             IN  [save |-> lang,
                  out |-> IF last # None
                          THEN <<ack, edit_message_text(news_message(last, lang,
                                          analyze_news_with_ai(key_set, last.title, lang,
                                                               completion),
                                          ok_title, ok_content)),
                                 changed>>
                          ELSE <<ack, changed>>]
        ELSE IF data = "price_impact"
        THEN [save |-> "none",
              out |-> IF last # None
                      THEN <<ack, edit_message_text([template |-> "impact", lang |-> user_lang,
                                     analysis |-> analyze_ton_price_impact(key_set, last.title,
                                                      user_lang, completion)]),
                             answer([template |-> "analysis_ready", lang |-> user_lang])>>
                      ELSE <<ack>>]
        ELSE [save |-> "none", out |-> <<ack>>]

(***************************************************************************)
(* The bot: monitor_news task, feed sources, language selection            *)
(***************************************************************************)
MaxMessageId == 2

MessageIds == 1..MaxMessageId

\* news alerts per link are counted up to this many
AlertCap == 2

\* entries each feed source may still publish, and what it lists at start
FeedPool(f) ==
    IF f = 1 THEN {EntryA, EntryB, EntryC} ELSE IF f = 2 THEN {EntryB} ELSE {}

InitialListing(f) ==
    IF f = 2 THEN <<EntryD, EntryD, EntryD, EntryD, EntryE>> ELSE <<>>

Init ==
    /\ loaded_sent \in {{}, {"e"}}
    /\ loaded_hashes = {}
    /\ InitNewsManager
    /\ InitBot
    /\ InitPriceCache
    /\ api_key \in BOOLEAN
    /\ feeds = [f \in FeedIds |-> InitialListing(f)]

\* locals of send_news_alert once the analysis text is there; ai tells where
\* it came from
Analyzed(user_lang, ai, analysis) ==
    [lang |-> user_lang, ai |-> ai, analysis |-> analysis]

\* the for loop reaching position i of items: either the loop is over and
\* sleep(120) starts (the list is dead from here on), or send_news_alert
\* runs up to its first real await
BeginDispatch(i, items) ==
    IF i > Len(items)
    THEN pc' = "sleep" /\ cur' = NoCur /\ news_items' = <<>> /\ idx' = 0
    ELSE /\ idx' = i
         /\ news_items' = items
         /\ LET user_lang == get_user_language(user_languages, TELEGRAM_CHAT_ID) IN
            IF api_key
            THEN pc' = "analyze" /\ cur' = [lang |-> user_lang, ai |-> "pending"]
            ELSE /\ pc' = "send"
                 /\ cur' = Analyzed(user_lang, "unconfigured",
                               analyze_news_with_ai(FALSE, items[i].title,
                                                    user_lang, "unused"))

\* one pass of the while loop up to its first await: fetch_rss_news, then
\* the first send_news_alert or sleep(120)
MonitorFetch(faults) ==
    /\ pc \in {"start", "sleep", "recover"}
    /\   LET r == fetch_rss_news(feeds, sent_news, content_hashes, hashes_file, faults) IN
         /\ content_hashes' = r.hashes
         /\ hashes_file' = r.file
         /\ feed_errors' = r.errors
         /\ BeginDispatch(1, r.items)
    /\ result' = NoResult
    /\ UNCHANGED <<sent_news, sent_file, last_news, last_file, callVars, loadVars, reply, undelivered,
                   priceVars, langVars, api_key, feeds, cancel, alerts>>

\* client.chat.completions.create returns text
AiReturns ==
    /\ pc = "analyze"
    /\ \E text \in AiTexts :
         cur' = Analyzed(cur.lang, "text",
                    analyze_news_with_ai(TRUE, news_items[idx].title, cur.lang,
                                         [kind |-> "text", text |-> text]))
    /\ pc' = "send"
    /\ result' = NoResult
    /\ UNCHANGED <<nmVars, callVars, loadVars, reply, undelivered, priceVars, langVars, api_key, feeds,
                   news_items, idx, cancel, feed_errors, alerts>>

\* client.chat.completions.create raises
AiRaises ==
    /\ pc = "analyze"
    /\ cur' = Analyzed(cur.lang, "raise",
                  analyze_news_with_ai(TRUE, news_items[idx].title, cur.lang,
                                       [kind |-> "raise"]))
    /\ pc' = "send"
    /\ result' = NoResult
    /\ UNCHANGED <<nmVars, callVars, loadVars, reply, undelivered, priceVars, langVars, api_key, feeds,
                   news_items, idx, cancel, feed_errors, alerts>>

\* the items of the current list from position i on
Pending(i) == {news_items[k] : k \in i..Len(news_items)}

\* monitor_news with sleep(2) after every dispatch, whatever it returned
AfterDispatch_always_pauses(ret) ==
    IF ret \in {"true", "false"}
    THEN /\ pc' = "pause" /\ cur' = NoCur /\ UNCHANGED <<news_items, idx, cancel>>
         /\ undelivered' = IF ret = "true" THEN undelivered
                           ELSE undelivered \cup {news_items[idx]}
    ELSE IF ret = "CancelledError"
    THEN /\ pc' = "done" /\ cancel' = "observed" /\ cur' = NoCur
         /\ news_items' = <<>> /\ idx' = 0
         /\ undelivered' = undelivered \cup Pending(idx)
    ELSE /\ pc' = "recover" /\ cur' = NoCur /\ news_items' = <<>> /\ idx' = 0
         /\ undelivered' = undelivered \cup Pending(idx)
         /\ UNCHANGED cancel

\* what the caller monitor_news does with the value or exception of
\* send_news_alert: sleep(2), next item, break, or the except Exception branch
AfterDispatch(ret) ==
    IF ret = "true"
    THEN pc' = "pause" /\ cur' = NoCur /\ UNCHANGED <<news_items, idx, cancel, undelivered>>
    ELSE IF ret = "false"
    THEN /\ BeginDispatch(idx + 1, news_items)
         /\ undelivered' = undelivered \cup {news_items[idx]}
         /\ UNCHANGED cancel
    ELSE IF ret = "CancelledError"
    THEN /\ pc' = "done" /\ cancel' = "observed" /\ cur' = NoCur
         /\ news_items' = <<>> /\ idx' = 0
         /\ undelivered' = undelivered \cup Pending(idx)
    ELSE /\ pc' = "recover" /\ cur' = NoCur /\ news_items' = <<>> /\ idx' = 0
         /\ undelivered' = undelivered \cup Pending(idx)
         /\ UNCHANGED cancel

\* the two translate_text calls (for "en") and the formatting happen right
\* before the send_message await; send_message returns sent_msg; then
\* mark_sent, last_news, save_last_news
SendOk(message_id, fault, ok_title, ok_content) ==
    /\ pc = "send"
    /\   LET news == news_items[idx]
             message == format_alert(news, cur.lang, cur.analysis,
                                     ok_title, ok_content)
             r == record_sent(sent_news, sent_file, last_news, last_file,
                              news, message_id, fault)
             ret == send_news_alert_return(r.exc)
         IN  /\ sent_news' = r.sent
             /\ sent_file' = r.sent_file
             /\ last_news' = r.last_news
             /\ last_file' = r.last_file
             /\ alerts' = [alerts EXCEPT ![news.link] =
                               IF @ < AlertCap THEN @ + 1 ELSE @]
             /\ result' = [ret |-> ret, news |-> news, send |-> "ok",
                           exc |-> r.exc, ai |-> cur.ai, message |-> message]
             /\ AfterDispatch(ret)
    /\ UNCHANGED <<content_hashes, hashes_file, callVars, loadVars, reply, priceVars, langVars,
                   api_key, feeds, feed_errors>>

\* send_message raises, but the link is marked sent all the same
SendRaises_marks ==
    /\ pc = "send"
    /\ LET ret == send_news_alert_return("TelegramError")
           m == mark_sent(sent_news, sent_file, news_items[idx].link, TRUE)
       IN
         /\ sent_news' = m.sent
         /\ sent_file' = m.file
         /\ result' = [ret |-> ret, news |-> news_items[idx], send |-> "raised",
                       exc |-> "TelegramError", ai |-> cur.ai]
         /\ AfterDispatch(ret)
    /\ UNCHANGED <<content_hashes, hashes_file, last_news, last_file, callVars,
                   loadVars, reply, priceVars, langVars, api_key, feeds,
                   feed_errors, alerts>>

\* send_message raises, but the item becomes the last-news snapshot
SendRaises_snapshots ==
    /\ pc = "send"
    /\ LET ret == send_news_alert_return("TelegramError")
           news == news_items[idx]
           snapshot == [title |-> news.title, link |-> news.link,
                        content |-> news.content, message_id |-> 1]
       IN
         /\ last_news' = snapshot
         /\ last_file' = snapshot
         /\ result' = [ret |-> ret, news |-> news, send |-> "raised",
                       exc |-> "TelegramError", ai |-> cur.ai]
         /\ AfterDispatch(ret)
    /\ UNCHANGED <<sent_news, sent_file, content_hashes, hashes_file, callVars,
                   loadVars, reply, priceVars, langVars, api_key, feeds,
                   feed_errors, alerts>>

\* send_message raises
SendRaises ==
    /\ pc = "send"
    /\ LET ret == send_news_alert_return("TelegramError") IN
         /\ result' = [ret |-> ret, news |-> news_items[idx], send |-> "raised",
                       exc |-> "TelegramError", ai |-> cur.ai]
         /\ AfterDispatch(ret)
    /\ UNCHANGED <<nmVars, callVars, loadVars, reply, priceVars, langVars, api_key, feeds,
                   feed_errors, alerts>>

\* asyncio.sleep(2) after a successful send is over
PauseDone ==
    /\ pc = "pause"
    /\ BeginDispatch(idx + 1, news_items)
    /\ result' = NoResult
    /\ UNCHANGED <<nmVars, callVars, loadVars, reply, undelivered, priceVars, langVars, api_key, feeds,
                   cancel, feed_errors, alerts>>

\* the cycle body without an "except Exception" around it: the exception
\* ends the task
CycleRaises_unhandled ==
    /\ pc \in {"start", "sleep", "recover"}
    /\ pc' = "done"
    /\ result' = NoResult
    /\ UNCHANGED <<nmVars, callVars, loadVars, reply, undelivered, priceVars, langVars, api_key, feeds,
                   news_items, idx, cur, cancel, feed_errors, alerts>>

\* a statement of the cycle body raises an Exception before the fetch: the
\* "except Exception" branch prints it and starts sleep(60)
CycleRaises ==
    /\ pc \in {"start", "sleep", "recover"}
    /\ pc' = "recover"
    /\ result' = NoResult
    /\ UNCHANGED <<nmVars, callVars, loadVars, reply, undelivered, priceVars, langVars, api_key, feeds,
                   news_items, idx, cur, cancel, feed_errors, alerts>>

\* monitor_task.cancel() reaches the task at the await it is suspended in.
\* sleep(60) runs inside the except branch, outside the try: a
\* CancelledError raised there leaves monitor_news as an exception.
Cancel ==
    /\ cancel = "none"
    /\ pc \in {"analyze", "send", "pause", "sleep", "recover"}
    /\ IF pc = "analyze"
       THEN /\ cur' = Analyzed(cur.lang, "cancelled",
                          analyze_news_with_ai(TRUE, news_items[idx].title,
                              cur.lang, [kind |-> "cancelled"]))
            /\ pc' = "send"
            /\ cancel' = "swallowed"
            /\ UNCHANGED <<news_items, idx, result, undelivered>>
       ELSE IF pc = "send"
       THEN LET ret == send_news_alert_return("CancelledError") IN
            /\ result' = [ret |-> ret, news |-> news_items[idx],
                          send |-> "cancelled", exc |-> "CancelledError",
                          ai |-> cur.ai]
            /\ AfterDispatch(ret)
       ELSE /\ pc' = "done"
            /\ cancel' = IF pc = "recover" THEN "escaped" ELSE "observed"
            /\ undelivered' = undelivered \cup Pending(idx + 1)
            /\ news_items' = <<>>
            /\ idx' = 0
            /\ cur' = NoCur
            /\ UNCHANGED result
    /\ UNCHANGED <<nmVars, callVars, loadVars, reply, priceVars, langVars, api_key, feeds,
                   feed_errors, alerts>>

\* a feed source publishes one more entry, newest first.  Only
\* fetch_rss_news reads the listings, so a change is taken at the points
\* where the next step of the task is a fetch.
Publish(f, entry) ==
    /\ pc \in {"start", "sleep", "recover"}
    /\ entry \in FeedPool(f)
    /\ entry \notin Range(feeds[f])
    /\ feeds' = [feeds EXCEPT ![f] = <<entry>> \o @]
    /\ UNCHANGED <<nmVars, callVars, loadVars, reply, undelivered, priceVars, langVars, api_key, monitorVars, obsVars>>

\* a user presses a language button of the start menu: button_callback with
\* data set_lang_ru or set_lang_en
SelectLanguage(user_id, lang) ==
    /\ LET data == IF lang = "en" THEN "set_lang_en" ELSE "set_lang_ru"
           b == button_callback(user_languages, last_news, api_key, user_id, data,
                                None, [kind |-> "raise"], TRUE, TRUE)
           r == save_user_language(user_languages, user_id, b.save)
       IN  /\ user_languages' = r.langs
           /\ lang_file' = r.file
           /\ reply' = [handler |-> "button_callback", user |-> user_id, data |-> data,
                        out |-> b.out]
    /\ UNCHANGED <<nmVars, callVars, loadVars, undelivered, priceVars, api_key, feeds, monitorVars, obsVars>>

\* a restart that does not read content_hashes.json
Restart_empty_hashes ==
    /\ loaded_sent' = json_load_set(sent_file)
    /\ loaded_hashes' = {}
    /\ sent_news' = json_load_set(sent_file)
    /\ content_hashes' = {}
    /\ last_news' = last_file
    /\ user_languages' = lang_file
    /\ price_cache' = [price |-> None, timestamp |-> None]
    /\ price_call' = NoCall
    /\ call' = NoCall /\ marked' = {} /\ asked' = {}
    /\ pc' = "start" /\ news_items' = <<>> /\ idx' = 0 /\ cur' = NoCur /\ cancel' = "none"
    /\ feed_errors' = {} /\ result' = NoResult /\ reply' = NoReply
    /\ undelivered' = undelivered
           \cup Pending(IF pc \in {"analyze", "send"} THEN idx ELSE idx + 1)
    /\ UNCHANGED <<sent_file, hashes_file, last_file, lang_file, api_key, feeds, alerts, now>>

\* the process ends, wherever the task is, and the bot is started again:
\* NewsManager() and load_user_languages() read the four files, the price
\* cache is empty, main() creates a new monitor task
Restart ==
    /\ loaded_sent' = json_load_set(sent_file)
    /\ loaded_hashes' = json_load_set(hashes_file)
    /\ sent_news' = json_load_set(sent_file)
    /\ content_hashes' = json_load_set(hashes_file)
    /\ last_news' = last_file
    /\ user_languages' = lang_file
    /\ price_cache' = [price |-> None, timestamp |-> None]
    /\ price_call' = NoCall
    /\ call' = NoCall /\ marked' = {} /\ asked' = {}
    /\ pc' = "start" /\ news_items' = <<>> /\ idx' = 0 /\ cur' = NoCur /\ cancel' = "none"
    /\ feed_errors' = {} /\ result' = NoResult /\ reply' = NoReply
    /\ undelivered' = undelivered
           \cup Pending(IF pc \in {"analyze", "send"} THEN idx ELSE idx + 1)
    /\ UNCHANGED <<sent_file, hashes_file, last_file, lang_file, api_key, feeds, alerts, now>>

WriteFaults == {"none", "sent_file", "last_file"}

Next ==
    \/ \E faults \in FaultChoices(feeds) : MonitorFetch(faults)
    \/ AiReturns
    \/ AiRaises
    \/ \E message_id \in MessageIds, fault \in WriteFaults,
          ok_title, ok_content \in BOOLEAN :
            SendOk(message_id, fault, ok_title, ok_content)
    \/ SendRaises
    \/ PauseDone
    \/ CycleRaises
    \/ Cancel
    \/ \E f \in FeedIds, entry \in Entries : Publish(f, entry)
    \/ \E lang \in Languages : SelectLanguage(TELEGRAM_CHAT_ID, lang)
    \/ Restart

Spec == Init /\ [][Next]_vars

(***************************************************************************)
(* The polling side of the bot on its own: listings change, feeds and      *)
(* fingerprint writes fail, sends succeed or raise, the task is cancelled. *)
(* No completion credential, nobody selects a language.                    *)
(***************************************************************************)
InitPolling == Init /\ api_key = FALSE

NextPolling ==
    \/ \E faults \in FaultChoices(feeds) : MonitorFetch(faults)
    \/ SendOk(1, "none", TRUE, TRUE)
    \/ SendRaises
    \/ PauseDone
    \/ Cancel
    \/ \E f \in FeedIds, entry \in Entries : Publish(f, entry)

SpecPolling == InitPolling /\ [][NextPolling]_vars

(***************************************************************************)
(* The delivery side on its own: every feed entry is listed from the       *)
(* start and fetched without faults; the completion, translation and       *)
(* delivery collaborators and the writes of send_news_alert succeed or     *)
(* fail, the chat selects languages, the task is cancelled.                *)
(***************************************************************************)
FullListing(f) ==
    IF f = 1 THEN <<EntryC, EntryA>> ELSE IF f = 2 THEN <<EntryB, EntryE>> ELSE <<>>

InitDispatch ==
    /\ loaded_sent \in {{}, {"e"}}
    /\ loaded_hashes = {}
    /\ InitNewsManager
    /\ InitBot
    /\ InitPriceCache
    /\ api_key \in BOOLEAN
    /\ feeds = [f \in FeedIds |-> FullListing(f)]

NextDispatch ==
    \/ MonitorFetch(NoFeedFaults)
    \/ AiReturns
    \/ AiRaises
    \/ \E message_id \in MessageIds, fault \in WriteFaults,
          ok_title, ok_content \in BOOLEAN :
            SendOk(message_id, fault, ok_title, ok_content)
    \/ SendRaises
    \/ PauseDone
    \/ Cancel
    \/ \E lang \in Languages : SelectLanguage(TELEGRAM_CHAT_ID, lang)

SpecDispatch == InitDispatch /\ [][NextDispatch]_vars

(***************************************************************************)
(* The control flow of monitor_news on its own: every feed entry is listed *)
(* from the start, a cycle may raise, the completion call returns or       *)
(* raises, sends succeed or raise, the task is cancelled.                  *)
(***************************************************************************)
InitLoop ==
    /\ loaded_sent = {}
    /\ loaded_hashes = {}
    /\ InitNewsManager
    /\ InitBot
    /\ InitPriceCache
    /\ api_key \in BOOLEAN
    /\ feeds = [f \in FeedIds |-> FullListing(f)]

NextLoop ==
    \/ MonitorFetch(NoFeedFaults)
    \/ AiReturns
    \/ AiRaises
    \/ SendOk(1, "none", TRUE, TRUE)
    \/ SendRaises
    \/ PauseDone
    \/ CycleRaises
    \/ Cancel

SpecLoop == InitLoop /\ [][NextLoop]_vars

(***************************************************************************)
(* The monitor loop across restarts: as above, and the process may end at  *)
(* any point and start again from its files.                               *)
(***************************************************************************)
NextRestart ==
    \/ MonitorFetch(NoFeedFaults)
    \/ AiReturns
    \/ AiRaises
    \/ SendOk(1, "none", TRUE, TRUE)
    \/ SendRaises
    \/ PauseDone
    \/ CycleRaises
    \/ Cancel
    \/ Restart

SpecRestart == InitLoop /\ [][NextRestart]_vars

(***************************************************************************)
(* get_ton_price and its cache                                             *)
(***************************************************************************)
\* timedelta(minutes=5)
FreshMinutes == 5

\* usd_rub_rate = 80.0
FallbackRate == 80

MaxClock == 6

\* what the three endpoints can answer
SpotAnswers ==
    {[kind |-> "raise"], [kind |-> "nofield"]}
        \cup {[kind |-> "ok", price |-> p] : p \in {2, 3}}

TickerAnswers ==
    {[kind |-> "raise"], [kind |-> "nofield"]}
        \cup {[kind |-> "ok", change |-> 1]}

RateAnswers ==
    {[kind |-> "raise"], [kind |-> "status"], [kind |-> "norate"],
     [kind |-> "ok", rate |-> 90]}

\* a datetime value, as opposed to None
Datetime(t) == [tag |-> "datetime", minute |-> t]

\* the freshness test with <= for <
cache_is_fresh_inclusive(cache, t) ==
    /\ cache.price # None
    /\ cache.timestamp # None
    /\ t - cache.timestamp.minute <= FreshMinutes

\* the freshness test of lines 255-256 at clock reading t
cache_is_fresh(cache, t) ==
    /\ cache.price # None
    /\ cache.timestamp # None
    /\ t - cache.timestamp.minute < FreshMinutes

\* get_ton_price answering a failed fetch with the stale cached value
get_ton_price_stale(cache, t_check, t_store, spot, ticker, rate) ==
    IF cache_is_fresh(cache, t_check)
    THEN [ret |-> cache.price, cache |-> cache, calls |-> <<>>]
    ELSE IF spot.kind # "ok"
    THEN [ret |-> cache.price, cache |-> cache, calls |-> <<"spot">>]
    ELSE IF ticker.kind = "raise"
    THEN [ret |-> cache.price, cache |-> cache, calls |-> <<"spot", "ticker">>]
    ELSE
      LET change_24h == IF ticker.kind = "ok" THEN ticker.change ELSE 0
          usd_rub_rate == IF rate.kind = "ok" THEN rate.rate ELSE FallbackRate
          res == [price_usd  |-> spot.price,
                  price_rub  |-> spot.price * usd_rub_rate,
                  change_24h |-> change_24h,
                  emoji      |-> IF change_24h > 0 THEN "up" ELSE "down"]
      IN  [ret |-> res, cache |-> [price |-> res, timestamp |-> Datetime(t_store)],
           calls |-> <<"spot", "ticker", "rate">>]

\* get_ton_price without the inner try around the conversion request
get_ton_price_rate_fatal(cache, t_check, t_store, spot, ticker, rate) ==
    IF cache_is_fresh(cache, t_check)
    THEN [ret |-> cache.price, cache |-> cache, calls |-> <<>>]
    ELSE IF spot.kind # "ok"
    THEN [ret |-> None, cache |-> cache, calls |-> <<"spot">>]
    ELSE IF ticker.kind = "raise"
    THEN [ret |-> None, cache |-> cache, calls |-> <<"spot", "ticker">>]
    ELSE IF rate.kind = "raise"
    THEN [ret |-> None, cache |-> cache, calls |-> <<"spot", "ticker", "rate">>]
    ELSE
      LET change_24h == IF ticker.kind = "ok" THEN ticker.change ELSE 0
          usd_rub_rate == IF rate.kind = "ok" THEN rate.rate ELSE FallbackRate
          res == [price_usd  |-> spot.price,
                  price_rub  |-> spot.price * usd_rub_rate,
                  change_24h |-> change_24h,
                  emoji      |-> IF change_24h > 0 THEN "up" ELSE "down"]
      IN  [ret |-> res, cache |-> [price |-> res, timestamp |-> Datetime(t_store)],
           calls |-> <<"spot", "ticker", "rate">>]

\* get_ton_price() entered at clock t_check; t_store is the clock when the
\* result is stored.  calls lists the endpoints requested.
get_ton_price(cache, t_check, t_store, spot, ticker, rate) ==
    IF cache_is_fresh(cache, t_check)
    THEN [ret |-> cache.price, cache |-> cache, calls |-> <<>>]
    ELSE IF spot.kind # "ok"
    THEN [ret |-> None, cache |-> cache, calls |-> <<"spot">>]
    ELSE IF ticker.kind = "raise"
    THEN [ret |-> None, cache |-> cache, calls |-> <<"spot", "ticker">>]
    ELSE
      LET price_usd == spot.price
          change_24h == IF ticker.kind = "ok" THEN ticker.change ELSE 0
          usd_rub_rate == IF rate.kind = "ok" THEN rate.rate ELSE FallbackRate
          res == [price_usd  |-> price_usd,
                  price_rub  |-> price_usd * usd_rub_rate,
                  change_24h |-> change_24h,
                  emoji      |-> IF change_24h > 0 THEN "up" ELSE "down"]
      IN  [ret |-> res, cache |-> [price |-> res, timestamp |-> Datetime(t_store)],
           calls |-> <<"spot", "ticker", "rate">>]

\* await get_ton_price(); elapsed is the time the requests take
AwaitPrice(spot, ticker, rate, elapsed) ==
    /\ now + elapsed <= MaxClock
    /\ LET r == get_ton_price(price_cache, now, now + elapsed, spot, ticker, rate) IN
         /\ price_cache' = r.cache
         /\ price_call' = [op |-> "get_ton_price", at |-> now, before |-> price_cache,
                           spot |-> spot,
                           ticker |-> IF Len(r.calls) >= 2 THEN ticker.kind ELSE "unused",
                           rate |-> IF Len(r.calls) >= 3 THEN rate.kind ELSE "unused",
                           ret |-> r.ret, calls |-> r.calls,
                           after_failure |->
                               /\ price_call.op = "get_ton_price"
                               /\ price_call.calls # <<>>
                               /\ price_call.ret = None]
    /\ now' = now + elapsed

\* get_ton_price() called on its own
GetPrice(spot, ticker, rate, elapsed) ==
    /\ AwaitPrice(spot, ticker, rate, elapsed)
    /\ UNCHANGED <<nmVars, callVars, loadVars, reply, undelivered, botVars>>

\* a minute passes
Tick ==
    /\ now < MaxClock
    /\ now' = now + 1
    /\ UNCHANGED <<nmVars, callVars, loadVars, reply, undelivered, botVars, price_cache, price_call>>

InitPrice ==
    /\ loaded_sent = {}
    /\ loaded_hashes = {}
    /\ InitNewsManager
    /\ InitBot
    /\ InitPriceCache
    /\ api_key = FALSE
    /\ feeds = <<>>

NextPrice ==
    \/ \E spot \in SpotAnswers, ticker \in TickerAnswers, rate \in RateAnswers,
          elapsed \in 0..1 : GetPrice(spot, ticker, rate, elapsed)
    \/ Tick

SpecPrice == InitPrice /\ [][NextPrice]_vars

(***************************************************************************)
(* The request-handling path: users send commands and press buttons.  The  *)
(* snapshot file may hold an item sent before the restart.                 *)
(***************************************************************************)
StartCommand(user_id) ==
    /\ reply' = [handler |-> "start_command", user |-> user_id, data |-> "none",
                 out |-> start_command]
    /\ UNCHANGED <<nmVars, callVars, loadVars, undelivered, botVars, priceVars>>

LastNewsCommand(user_id, completion, ok_title, ok_content) ==
    /\ reply' = [handler |-> "lastnews_command", user |-> user_id, data |-> "none",
                 out |-> lastnews_command(user_languages, last_news, api_key, user_id,
                                          completion, ok_title, ok_content)]
    /\ UNCHANGED <<nmVars, callVars, loadVars, undelivered, botVars, priceVars>>

PriceCommand(user_id, spot, ticker, rate, elapsed) ==
    /\ AwaitPrice(spot, ticker, rate, elapsed)
    /\ reply' = [handler |-> "price_command", user |-> user_id, data |-> "none",
                 out |-> price_command(user_languages, user_id, price_call'.ret)]
    /\ UNCHANGED <<nmVars, callVars, loadVars, undelivered, botVars>>

HelpCommand(user_id) ==
    /\ reply' = [handler |-> "help_command", user |-> user_id, data |-> "none",
                 out |-> help_command(user_languages, user_id)]
    /\ UNCHANGED <<nmVars, callVars, loadVars, undelivered, botVars, priceVars>>

\* button_callback(update) on a press of the button carrying data
ButtonCallback(user_id, data, spot, ticker, rate, elapsed, completion, ok_title, ok_content) ==
    /\ IF data \in {"price", "price_refresh"}
       THEN AwaitPrice(spot, ticker, rate, elapsed)
       ELSE UNCHANGED priceVars
    /\ LET b == button_callback(user_languages, last_news, api_key, user_id, data,
                                price_call'.ret, completion, ok_title, ok_content)
           r == save_user_language(user_languages, user_id, b.save)
       IN  /\ reply' = [handler |-> "button_callback", user |-> user_id, data |-> data,
                        out |-> b.out]
           /\ IF b.save = "none"
              THEN UNCHANGED langVars
              ELSE user_languages' = r.langs /\ lang_file' = r.file
    /\ UNCHANGED <<nmVars, callVars, loadVars, undelivered, api_key, feeds, monitorVars, obsVars>>

\* the item last_news.json holds when the bot starts after having sent EntryA
LoadedSnapshot ==
    [title |-> NewsItemTable[EntryA].title, link |-> EntryA.link,
     content |-> NewsItemTable[EntryA].content, message_id |-> 1]

InitHandlers ==
    /\ loaded_sent \in {{}, {EntryA.link}}
    /\ loaded_hashes = {get_content_hash(e.title, e.summary) :
                           e \in {x \in {EntryA} : x.link \in loaded_sent}}
    /\ sent_news = loaded_sent
    /\ content_hashes = loaded_hashes
    /\ last_news = IF loaded_sent = {} THEN None ELSE LoadedSnapshot
    /\ sent_file = json_dump_set(loaded_sent)
    /\ hashes_file = json_dump_set(loaded_hashes)
    /\ last_file = last_news
    /\ call = NoCall
    /\ marked = {}
    /\ asked = {}
    /\ InitBot
    /\ InitPriceCache
    /\ api_key \in BOOLEAN
    /\ feeds = [f \in FeedIds |-> <<>>]

\* the price endpoints answer at once; the spot request works or raises
HandlerSpots == {[kind |-> "raise"], [kind |-> "ok", price |-> 2]}

TickerOk == [kind |-> "ok", change |-> 1]

RateOk == [kind |-> "ok", rate |-> 90]

\* each press is offered the collaborators its branch of button_callback uses
NextHandlers ==
    \/ \E user_id \in Users : StartCommand(user_id)
    \/ \E user_id \in Users, completion \in Completions, ok_title, ok_content \in BOOLEAN :
          LastNewsCommand(user_id, completion, ok_title, ok_content)
    \/ \E user_id \in Users, spot \in HandlerSpots :
          PriceCommand(user_id, spot, TickerOk, RateOk, 0)
    \/ \E user_id \in Users : HelpCommand(user_id)
    \/ \E user_id \in Users, data \in {"price", "price_refresh"}, spot \in HandlerSpots :
          ButtonCallback(user_id, data, spot, TickerOk, RateOk, 0,
                         [kind |-> "raise"], TRUE, TRUE)
    \/ \E user_id \in Users, data \in {"lastnews", "lang_en", "lang_ru", "price_impact"},
          completion \in Completions, ok_title, ok_content \in BOOLEAN :
          ButtonCallback(user_id, data, [kind |-> "raise"], TickerOk, RateOk, 0,
                         completion, ok_title, ok_content)
    \/ \E user_id \in Users, data \in {"set_lang_ru", "set_lang_en", "help"} :
          ButtonCallback(user_id, data, [kind |-> "raise"], TickerOk, RateOk, 0,
                         [kind |-> "raise"], TRUE, TRUE)

SpecHandlers == InitHandlers /\ [][NextHandlers]_vars

(***************************************************************************)
(* The polling task and the button handler on one event loop: a press is   *)
(* handled while the task is suspended in send_message, sleep(2) or        *)
(* sleep(120); the writes of send_news_alert succeed or raise.             *)
(***************************************************************************)
InitInterleaved == InitLoop /\ api_key = FALSE

NextInterleaved ==
    \/ MonitorFetch(NoFeedFaults)
    \/ \E fault \in WriteFaults : SendOk(1, fault, TRUE, TRUE)
    \/ SendRaises
    \/ PauseDone
    \/ Cancel
    \/ \E user_id \in Users,
          data \in {"set_lang_ru", "set_lang_en", "lang_ru", "lang_en", "lastnews"} :
          ButtonCallback(user_id, data, [kind |-> "raise"], TickerOk, RateOk, 0,
                         [kind |-> "raise"], TRUE, TRUE)

SpecInterleaved == InitInterleaved /\ [][NextInterleaved]_vars

(***************************************************************************)
(* Properties of the running bot                                           *)
(***************************************************************************)
\* C3: every link of the seen-link set that was not loaded at start is the
\* link of an item whose send_message call has already returned; a send that
\* raises, or a cancelled one, adds nothing.
C3_SentOnlyAfterSend ==
    \A link \in sent_news \ loaded_sent : alerts[link] > 0

\* a send has just raised for a link that stays unmarked, while another link
\* was marked after its own successful send
C3_Witness ==
    /\ result # NoResult
    /\ result.send = "raised"
    /\ result.news.link \notin sent_news
    /\ sent_news \ loaded_sent # {}

\* C4: once an alert for a link has been sent, no later fetch returns an
\* item for a listed entry with that link, for as long as it stays listed.
C4_SentEntryNotReturned ==
    [][(pc \in {"start", "sleep", "recover"}) =>
         (\A f \in FeedIds : \A i \in 1..Len(feeds[f]) :
             alerts[feeds[f][i].link] > 0 =>
                 NewsItemTable[feeds[f][i]] \notin Range(news_items'))
      ]_vars

\* a later fetch has returned something while an entry sent before is still
\* among the first entries of its feed
C4_Witness ==
    /\ pc = "send"
    /\ idx = 1
    /\ \E f \in FeedIds : \E i \in 1..Len(feeds[f]) :
           /\ i <= FeedSlice
           /\ alerts[feeds[f][i].link] > 0
           /\ feeds[f][i].link \notin loaded_sent
           /\ is_ton_related(feeds[f][i].title) \/ is_ton_related(feeds[f][i].summary)

\* C5: of two relevant unsent entries with different links and one
\* fingerprint, a fetch returns the later one never (neither in the poll
\* that met the earlier one nor in a later poll, where the fingerprint is
\* already recorded), and returns the earlier one when the fingerprint is
\* new and its feed is processed without an error.
C5_SecondIsContentDuplicate ==
    [][(pc \in {"start", "sleep", "recover"}) =>
         LET Pos == {p \in FeedIds \X (1..FeedSlice) : p[2] <= Len(feeds[p[1]])}
             E(p) == feeds[p[1]][p[2]]
             Fp(p) == get_content_hash(E(p).title, E(p).summary)
             Cand(p) == /\ is_ton_related(E(p).title) \/ is_ton_related(E(p).summary)
                        /\ E(p).link \notin sent_news
             Before(p, q) == p[1] < q[1] \/ (p[1] = q[1] /\ p[2] < q[2])
             Returned(p) == NewsItemTable[E(p)] \in Range(news_items')
             FetchStep == UNCHANGED <<feeds, cancel, langVars>>
             First(p) == \A r \in Pos : Cand(r) /\ Before(r, p) => Fp(r) # Fp(p)
         IN  /\ \A q \in Pos : Cand(q) /\ Fp(q) \in content_hashes => ~Returned(q)
             /\ \A p \in Pos :
                    (Cand(p) /\ First(p) /\ p[1] \notin feed_errors') =>
                       /\ \A q \in Pos :
                            (/\ Cand(q)
                             /\ Before(p, q)
                             /\ E(p).link # E(q).link
                             /\ Fp(p) = Fp(q)) => ~Returned(q)
                       /\ (FetchStep /\ Fp(p) \notin content_hashes) => Returned(p)
      ]_vars

\* a fetch has returned one of two listed unsent entries with different
\* links and one fingerprint, and not the other
C5_Witness ==
    /\ pc = "send"
    /\ \E f \in FeedIds, g \in FeedIds :
         \E i \in 1..Len(feeds[f]), j \in 1..Len(feeds[g]) :
           /\ i <= FeedSlice
           /\ j <= FeedSlice
           /\ feeds[f][i].link # feeds[g][j].link
           /\ feeds[f][i].link \notin sent_news
           /\ feeds[g][j].link \notin sent_news
           /\ is_ton_related(feeds[f][i].title)
           /\ is_ton_related(feeds[g][j].title)
           /\ get_content_hash(feeds[f][i].title, feeds[f][i].summary)
                = get_content_hash(feeds[g][j].title, feeds[g][j].summary)
           /\ NewsItemTable[feeds[f][i]] \in Range(news_items)
           /\ NewsItemTable[feeds[g][j]] \notin Range(news_items)

\* C15: a fetch returns, in feed-then-entry order, exactly the items of the
\* entries among the first FeedSlice of each feed that are on topic by title
\* or summary, whose link is not in sent_news and whose fingerprint is
\* neither in content_hashes when the fetch starts nor the one of an earlier
\* on-topic unsent entry of the same fetch.  When a feed raised, what is
\* returned is still such an item of a listed entry.
C15_ReturnsExactlyQualifying ==
    [][(pc \in {"start", "sleep", "recover"} /\ UNCHANGED <<feeds, cancel>>) =>
         LET Pos == {p \in FeedIds \X (1..FeedSlice) : p[2] <= Len(feeds[p[1]])}
             E(p) == feeds[p[1]][p[2]]
             Fp(p) == get_content_hash(E(p).title, E(p).summary)
             Cand(p) == /\ is_ton_related(E(p).title) \/ is_ton_related(E(p).summary)
                        /\ E(p).link \notin sent_news
                        /\ Fp(p) \notin content_hashes
             Before(p, q) == p[1] < q[1] \/ (p[1] = q[1] /\ p[2] < q[2])
             Qualifies(p) == /\ Cand(p)
                             /\ \A q \in Pos : Cand(q) /\ Before(q, p) => Fp(q) # Fp(p)
             Rank(p) == Cardinality({q \in Pos : Qualifies(q) /\ (q = p \/ Before(q, p))})
         IN  /\ \A k \in 1..Len(news_items') :
                    \E p \in Pos : Cand(p) /\ news_items'[k] = NewsItemTable[E(p)]
             /\ feed_errors' = {} =>
                    /\ Len(news_items') = Cardinality({p \in Pos : Qualifies(p)})
                    /\ \A p \in Pos :
                           Qualifies(p) => news_items'[Rank(p)] = NewsItemTable[E(p)]
      ]_vars

\* a fetch without errors has returned the item of EntryA alone: its twin
\* EntryB, listed in the second feed, was a duplicate, and the on-topic
\* EntryE is no longer among the first FeedSlice entries of that feed
C15_Witness ==
    /\ pc = "send"
    /\ idx = 1
    /\ feed_errors = {}
    /\ news_items = <<NewsItemTable[EntryA]>>
    /\ feeds[1] = <<EntryA>>
    /\ Len(feeds[2]) > FeedSlice
    /\ feeds[2][1] = EntryB
    /\ feeds[2][FeedSlice + 1] = EntryE
    /\ sent_news = {}

\* C16: when feeds raised during a fetch, the monitor loop goes on with the
\* returned list as after any fetch, and for some point of failure in each
\* of these feeds (before its first entry, or in is_duplicate_content at a
\* new fingerprint) the list is what C15 describes for the entries before
\* those points and every entry of the other feeds.
C16_FailingFeedIsSkipped ==
    [][(/\ pc \in {"start", "sleep", "recover"}
        /\ UNCHANGED <<feeds, cancel>>
        /\ feed_errors' # {}) =>
         LET Pos == {p \in FeedIds \X (1..FeedSlice) : p[2] <= Len(feeds[p[1]])}
             E(p) == feeds[p[1]][p[2]]
             Fp(p) == get_content_hash(E(p).title, E(p).summary)
             Cand(p) == /\ is_ton_related(E(p).title) \/ is_ton_related(E(p).summary)
                        /\ E(p).link \notin sent_news
                        /\ Fp(p) \notin content_hashes
             Before(p, q) == p[1] < q[1] \/ (p[1] = q[1] /\ p[2] < q[2])
             Stops == [feed_errors' -> 0..FeedSlice]
         IN  /\ pc' \in {"analyze", "send", "sleep"}
             /\ \E stop \in Stops, in_detector \in SUBSET feed_errors' :
                  LET Done(p) == p[1] \in feed_errors' => p[2] <= stop[p[1]]
                      Asked(p) ==
                          \/ Done(p)
                          \/ p[1] \in in_detector /\ p[2] = stop[p[1]] + 1
                      Qualifies(p) ==
                          /\ Done(p)
                          /\ Cand(p)
                          /\ \A q \in Pos :
                                 Asked(q) /\ Cand(q) /\ Before(q, p) => Fp(q) # Fp(p)
                      Rank(p) ==
                          Cardinality({q \in Pos : Qualifies(q) /\ (q = p \/ Before(q, p))})
                  IN  /\ \A f \in feed_errors' : stop[f] <= Len(feeds[f])
                      /\ Len(news_items') = Cardinality({p \in Pos : Qualifies(p)})
                      /\ \A p \in Pos :
                             Qualifies(p) => news_items'[Rank(p)] = NewsItemTable[E(p)]
      ]_vars

\* the first feed raised at its second entry: the list holds the item of
\* its first entry and the item of the second feed's on-topic entry
C16_Witness ==
    /\ pc = "send"
    /\ idx = 1
    /\ feed_errors = {1}
    /\ feeds[1] = <<EntryC, EntryA>>
    /\ news_items = <<NewsItemTable[EntryC], NewsItemTable[EntryE]>>

\* C18: what sent_news.json, content_hashes.json and user_languages.json
\* hold loads back to the seen-link set, the fingerprint set and the
\* language map the bot has in memory.
C18_FilesMirrorMemory ==
    /\ json_load_set(sent_file) = sent_news
    /\ json_load_set(hashes_file) = content_hashes
    /\ lang_file = user_languages

\* C19: last_news is None until a dispatch returns True; it changes only in
\* a dispatch that returns True, and every such dispatch leaves in it its
\* item with the message id of its send; the link of last_news is in
\* sent_news.
C19_SnapshotIsLastSuccess ==
    /\ [](last_news # None => last_news.link \in sent_news)
    /\ [][(last_news' # last_news \/ (pc = "send" /\ result'.ret = "true")) =>
            (/\ pc = "send"
             /\ result'.ret = "true"
             /\ result'.news = news_items[idx]
             /\ last_news' # None
             /\ last_news'.message_id \in MessageIds
             /\ [title |-> last_news'.title, link |-> last_news'.link,
                 content |-> last_news'.content] = news_items[idx])
         ]_vars

\* C6: with the completion collaborator configured and raising, a dispatch
\* whose send_message succeeds (and whose state files are written) returns
\* true with the rule-based classification of the title as analysis text.
C6_RuleBasedOnError ==
    (/\ result # NoResult
     /\ result.send = "ok"
     /\ result.ai = "raise"
     /\ result.exc = "none")
    => /\ result.ret = "true"
       /\ result.message.analysis
            = TrendText(TrendTable[result.news.title], result.message.lang)

C11_LoopNeverStops ==
    /\ [](pc = "done" => cancel # "none")
    /\ [](pc \in {"sleep", "recover"} => ENABLED MonitorFetch(NoFeedFaults))
    /\ [][(pc # "done" /\ pc' = "done") => (cancel = "none" /\ cancel' # "none")]_vars
    /\ [][(pc \in {"sleep", "recover"} /\ cancel' = cancel)
            => pc' \in {"analyze", "send", "sleep", "recover"}]_vars

\* after an alert went out in an earlier cycle, a cycle raised and the task
\* is in sleep(60), not cancelled
C11_Witness ==
    /\ pc = "recover"
    /\ cancel = "none"
    /\ \E link \in Links : alerts[link] > 0

\* C12: once cancellation has been delivered to the task, at whichever
\* await it is suspended in, monitor_news has ended through its own
\* "except asyncio.CancelledError: break": no later fetch or dispatch, and
\* no exception leaving the loop.
C12_CancelEndsLoopCleanly ==
    cancel # "none" => (pc = "done" /\ cancel = "observed")

\* C13: a cycle is one fetch, then one send_news_alert call per returned
\* item, in list order and one at a time; sleep(2) follows exactly the
\* calls that returned True; sleep(120) starts when the last item has been
\* processed, or right after a fetch that returned nothing.
C13_OneFetchThenSequentialDispatch ==
    [][LET Sleeping == pc \in {"start", "sleep", "recover"}
           Dispatching == pc \in {"analyze", "send"}
           Ended == pc = "send" /\ (pc' # pc \/ idx' # idx)
           Last == idx = Len(news_items)
           NextItem == /\ idx' = idx + 1
                       /\ news_items' = news_items
                       /\ pc' \in {"analyze", "send"}
       IN  /\ (idx' # idx) =>
                \/ NextItem /\ ~Last
                \/ Sleeping /\ idx' = 1 /\ news_items' # <<>> /\ pc' \in {"analyze", "send"}
                \/ idx' = 0 /\ news_items' = <<>> /\ pc' \in {"sleep", "done"}
           /\ (news_items' # news_items) =>
                \/ Sleeping /\ idx' = 1
                \/ news_items' = <<>> /\ idx' = 0
           /\ Ended => result'.news = news_items[idx]
           /\ (Ended /\ result'.ret = "true") =>
                pc' = "pause" /\ idx' = idx /\ news_items' = news_items
           /\ (Ended /\ result'.ret = "false") =>
                IF Last THEN pc' = "sleep" ELSE NextItem
           /\ (pc = "pause" /\ cancel' = cancel) =>
                IF Last THEN pc' = "sleep" ELSE NextItem
           /\ (pc' = "pause" /\ pc # "pause") => (Ended /\ result'.ret = "true")
           /\ (pc' = "sleep" /\ pc # "sleep") =>
                \/ Sleeping /\ idx' = 0
                \/ Last /\ (pc = "pause" \/ (Ended /\ result'.ret = "false"))
           /\ (Dispatching /\ ~Ended /\ cancel' = cancel) =>
                (pc' = "send" /\ idx' = idx /\ news_items' = news_items)
      ]_vars

\* the second item's dispatch has started right after the first one
\* returned False, with no pause in between
C13_Witness ==
    /\ pc \in {"analyze", "send"}
    /\ idx = 2
    /\ Len(news_items) >= 3
    /\ result # NoResult
    /\ result.ret = "false"
    /\ result.news = news_items[1]

(***************************************************************************)
(* Properties of the handlers                                              *)
(***************************************************************************)
\* C20: send_message accepts at most one news alert per link.
C20_OneAlertPerLink ==
    \A link \in Links : alerts[link] <= 1

\* C21: an item that a fetch returned and whose dispatch returned False, or
\* never ran because the task was cancelled or the process ended first, has
\* its fingerprint in content_hashes and in content_hashes.json; no later
\* fetch returns it, in this process or after a restart, and it is never
\* again in front of the dispatch position.
C21_UndeliveredNeverReturned ==
    /\ [](\A e \in Entries :
            NewsItemTable[e] \in undelivered =>
              /\ get_content_hash(e.title, e.summary) \in content_hashes
              /\ get_content_hash(e.title, e.summary) \in json_load_set(hashes_file))
    /\ [](\A k \in DOMAIN news_items : news_items[k] \in undelivered => k < idx)
    /\ [][(news_items' # news_items) =>
            (\A k \in DOMAIN news_items' : news_items'[k] \notin undelivered)
         ]_vars

\* after a restart a fetch has returned nothing, while the entry of an item
\* whose send had raised is still listed, on topic and not in sent_news
C21_Witness ==
    /\ pc = "sleep"
    /\ loaded_hashes # {}
    /\ \E f \in FeedIds : \E i \in 1..Len(feeds[f]) :
          /\ i <= FeedSlice
          /\ NewsItemTable[feeds[f][i]] \in undelivered
          /\ feeds[f][i].link \notin sent_news
          /\ alerts[feeds[f][i].link] = 0
          /\ is_ton_related(feeds[f][i].title)

\* C22: the step in which send_message raises, and the completion step of
\* the same dispatch before it, change none of sent_news, last_news,
\* content_hashes, user_languages and their files.
C22_FailedSendChangesNothing ==
    [][((pc = "send" /\ result' # result /\ result'.send = "raised")
          \/ (pc = "analyze" /\ pc' = "send"))
        => UNCHANGED <<nmVars, langVars>>
      ]_vars

\* a send has raised after an earlier item was delivered and the chat chose
\* a language: the failed item's link is not in sent_news and the snapshot
\* is still the earlier item
C22_Witness ==
    /\ result # NoResult
    /\ result.send = "raised"
    /\ result.ret = "false"
    /\ result.news.link \notin sent_news
    /\ last_news # None
    /\ last_news.link # result.news.link
    /\ last_file = last_news
    /\ user_languages # <<>>

\* C23: a fetch adds to content_hashes, and to content_hashes.json, only
\* fingerprints of entries among the first FeedSlice of a feed that are on
\* topic and whose link is not in sent_news, removes none, and leaves
\* sent_news, last_news and their files as they were.
C23_FetchRecordsOnlyCandidates ==
    [][(pc \in {"start", "sleep", "recover"} /\ UNCHANGED <<feeds, cancel>>) =>
         LET Pos == {p \in FeedIds \X (1..FeedSlice) : p[2] <= Len(feeds[p[1]])}
             E(p) == feeds[p[1]][p[2]]
             Fp(p) == get_content_hash(E(p).title, E(p).summary)
             Cand(p) == /\ is_ton_related(E(p).title) \/ is_ton_related(E(p).summary)
                        /\ E(p).link \notin sent_news
             Allowed == content_hashes \cup {Fp(p) : p \in {q \in Pos : Cand(q)}}
         IN  /\ content_hashes \subseteq content_hashes'
             /\ content_hashes' \subseteq Allowed
             /\ json_load_set(hashes_file') \subseteq Allowed
             /\ UNCHANGED <<sent_news, sent_file, last_news, last_file>>
      ]_vars

\* a fetch has read an off-topic entry and an on-topic entry whose link is
\* in sent_news, returned nothing and recorded no fingerprint
C23_Witness ==
    /\ pc = "sleep"
    /\ content_hashes = {}
    /\ hashes_file = json_dump_set({})
    /\ feed_errors = {}
    /\ \E f \in FeedIds : \E i \in 1..Len(feeds[f]), j \in 1..Len(feeds[f]) :
          /\ i <= FeedSlice
          /\ j <= FeedSlice
          /\ ~is_ton_related(feeds[f][i].title) /\ ~is_ton_related(feeds[f][i].summary)
          /\ is_ton_related(feeds[f][j].summary)
          /\ feeds[f][j].link \in sent_news

\* C14: every invocation of a command handler or of button_callback sends
\* the user a message: a reply_text, an edit_message_text or an answer that
\* carries text; the empty answer() that acknowledges a press is not one.
C14_EveryInvocationReplies ==
    reply # NoReply => \E i \in DOMAIN reply.out : reply.out[i].message # NoText

\* the language an invocation handed to save_user_language, "none" if it
\* made no such call
Selected(r) ==
    IF r.handler # "button_callback" THEN "none"
    ELSE IF r.data \in {"set_lang_ru", "lang_ru"} THEN "ru"
    ELSE IF r.data \in {"set_lang_en", "lang_en"} THEN "en"
    ELSE "none"

\* the invocations that show last_news in the user's stored language
LatestNews(r) ==
    \/ r.handler = "lastnews_command"
    \/ r.handler = "button_callback" /\ r.data = "lastnews"

\* C17: the language of a user is the one of their most recent selection,
\* "ru" before the first one; a preference changes only by a selection of
\* that user; stored values are "ru" or "en"; no entry is removed; and the
\* latest-news answer to a user is written in that user's language.
C17_LanguageIsLastSelection ==
    /\ [](\A u \in DOMAIN user_languages : user_languages[u] \in Languages)
    /\ [](Selected(reply) # "none"
            => get_user_language(user_languages, reply.user) = Selected(reply))
    /\ [](\A u \in Users : ToString(u) \notin DOMAIN user_languages
            => get_user_language(user_languages, u) = "ru")
    /\ [](LatestNews(reply)
            => \A i \in DOMAIN reply.out :
                 reply.out[i].message # NoText
                   => reply.out[i].message.lang
                        = get_user_language(user_languages, reply.user))
    /\ [][\A u \in Users :
             /\ (ToString(u) \in DOMAIN user_languages
                   => ToString(u) \in DOMAIN user_languages')
             /\ (\/ ToString(u) \in DOMAIN user_languages' \ DOMAIN user_languages
                 \/ get_user_language(user_languages', u)
                      # get_user_language(user_languages, u))
                   => (/\ reply'.user = u
                       /\ Selected(reply') = get_user_language(user_languages', u))
         ]_vars

\* the chat switched to English while the other user chose Russian, and the
\* latest-news command then answered the chat with the English news message
C17_Witness ==
    /\ reply.handler = "lastnews_command"
    /\ reply.user = TELEGRAM_CHAT_ID
    /\ reply.out[1].message.template = "news"
    /\ reply.out[1].message.lang = "en"
    /\ user_languages = (ToString(TELEGRAM_CHAT_ID) :> "en")
                           @@ (ToString(TELEGRAM_CHAT_ID + 1) :> "ru")

\* C24: with button presses handled between the steps of the polling task,
\* sent_news holds the link of every delivered alert, content_hashes the
\* fingerprint of every item a fetch returned, user_languages each user's
\* latest selection; the sets only grow, a language changes only by its
\* user's selection, last_news only in a send that succeeded, and a file
\* that is written receives the collection as it is in memory.
C24_NoLostUpdate ==
    /\ [](\A link \in Links : alerts[link] > 0 => link \in sent_news)
    /\ [](\A e \in Entries :
            (NewsItemTable[e] \in Range(news_items) \cup undelivered)
              => get_content_hash(e.title, e.summary) \in content_hashes)
    /\ [](Selected(reply) # "none"
            => get_user_language(user_languages, reply.user) = Selected(reply))
    /\ [][/\ sent_news \subseteq sent_news'
          /\ content_hashes \subseteq content_hashes'
          /\ \A u \in Users :
               (\/ ToString(u) \in DOMAIN user_languages /\ ToString(u) \notin DOMAIN user_languages'
                \/ get_user_language(user_languages', u) # get_user_language(user_languages, u))
                 => (reply'.user = u /\ Selected(reply') = get_user_language(user_languages', u))
          /\ (last_news' # last_news) => (pc = "send" /\ result'.send = "ok")
          /\ (sent_file' # sent_file) => (sent_file' = json_dump_set(sent_news'))
          /\ (hashes_file' # hashes_file) => (hashes_file' = json_dump_set(content_hashes'))
          /\ (lang_file' # lang_file) => (lang_file' = user_languages')
          /\ (last_file' # last_file) => (last_file' = last_news')
         ]_vars

\* both users chose a language while the task was in its second dispatch of
\* a cycle, after an alert was delivered; the files hold what memory holds
C24_Witness ==
    /\ pc = "send"
    /\ idx = 2
    /\ \E link \in Links : alerts[link] > 0 /\ link \in json_load_set(sent_file)
    /\ reply.handler = "button_callback"
    /\ user_languages = (ToString(TELEGRAM_CHAT_ID) :> "en")
                           @@ (ToString(TELEGRAM_CHAT_ID + 1) :> "ru")
    /\ lang_file = user_languages
    /\ cur.lang = "ru"

(***************************************************************************)
(* Properties of get_ton_price                                             *)
(***************************************************************************)
\* C8: with a value cached at minute t, a call before t + 5 returns that
\* value, asks the price collaborator nothing and leaves the cache alone,
\* whatever the collaborator would answer; a call at or after t + 5 asks
\* for the spot price.
C8_CachedWithinWindow ==
    (price_call.op = "get_ton_price" /\ price_call.before.price # None) =>
        LET t == price_call.before.timestamp.minute IN
        /\ price_call.at < t + 5 =>
             /\ price_call.ret = price_call.before.price
             /\ price_call.calls = <<>>
             /\ price_cache = price_call.before
        /\ price_call.at >= t + 5 =>
             /\ price_call.calls # <<>>
             /\ price_call.calls[1] = "spot"

\* a call later than the fetch and inside the window got the cached value
\* although the collaborator had another price to offer
C8_Witness ==
    /\ price_call.op = "get_ton_price"
    /\ price_call.before.price # None
    /\ price_call.at > price_call.before.timestamp.minute
    /\ price_call.at < price_call.before.timestamp.minute + 5
    /\ price_call.calls = <<>>
    /\ price_call.spot.kind = "ok"
    /\ price_call.spot.price # price_call.ret.price_usd

\* C9 as stated: without a fresh cached value, a failing spot or 24h call,
\* a response without the expected field included, gives None and leaves
\* the cache unchanged.
C9_AnyFailureGivesNull ==
    (/\ price_call.op = "get_ton_price"
     /\ price_call.calls # <<>>
     /\ \/ price_call.spot.kind \in {"raise", "nofield"}
        \/ price_call.ticker \in {"raise", "nofield"})
    => /\ price_call.ret = None
       /\ price_cache = price_call.before

\* C9: without a fresh cached value, a spot call that raises or answers
\* without "price", or a 24h call that raises, gives None, leaves the cache
\* unchanged (the stale value is not returned), and the next call asks the
\* collaborator again; a 24h answer without "priceChangePercent" gives a
\* result with change 0, which is cached.
C9_FailureGivesNull ==
    price_call.op = "get_ton_price" =>
        /\ (/\ price_call.calls # <<>>
            /\ price_call.spot.kind \in {"raise", "nofield"} \/ price_call.ticker = "raise")
           => /\ price_call.ret = None
              /\ price_cache = price_call.before
        /\ (/\ price_call.calls # <<>>
            /\ price_call.spot.kind = "ok"
            /\ price_call.ticker = "nofield")
           => /\ price_call.ret # None
              /\ price_call.ret.change_24h = 0
              /\ price_cache.price = price_call.ret
        /\ price_call.after_failure => price_call.calls # <<>>

\* two failed calls in a row with a stale value in the cache
C9_Witness ==
    /\ price_call.op = "get_ton_price"
    /\ price_call.after_failure
    /\ price_call.before.price # None
    /\ price_call.ret = None
    /\ price_call.ticker = "raise"

\* C10: when the spot and 24h calls answer and the conversion call raises,
\* answers with another status than 200 or without a RUB rate, the result is
\* not None, its price_rub is the spot price times 80, and it is stored in
\* the cache with the time of the call.
C10_FallbackRate ==
    (/\ price_call.op = "get_ton_price"
     /\ price_call.calls # <<>>
     /\ price_call.spot.kind = "ok"
     /\ price_call.ticker \in {"ok", "nofield"}
     /\ price_call.rate \in {"raise", "status", "norate"})
    => /\ price_call.ret # None
       /\ price_call.ret.price_usd = price_call.spot.price
       /\ price_call.ret.price_rub = price_call.spot.price * 80
       /\ price_cache.price = price_call.ret
       /\ price_cache.timestamp # None
       /\ price_cache.timestamp.minute >= price_call.at

\* a refresh of an expired cache entry with the conversion call raising
C10_Witness ==
    /\ price_call.op = "get_ton_price"
    /\ price_call.before.price # None
    /\ price_call.rate = "raise"
    /\ price_call.ret # None
    /\ price_call.ret.price_rub = 240
    /\ price_cache.price = price_call.ret

====
